---- MODULE Spec2Model ----
(***************************************************************************)
(* Model of Portfolio/Module7/PortfolioMod7.cpp: ThreadSafeCounter with    *)
(* its two workers countUp and countDown, and main, which starts and joins *)
(* them.  Every statement that touches shared state (a mutex, the          *)
(* condition variable, up_complete_, the output streams) is one step.      *)
(***************************************************************************)
EXTENDS Integers, Sequences, FiniteSets, TLC

VARIABLES
  pc,            \* position of main, countUp ("up") and countDown ("down")
  print_mutex_,  \* owner of print_mutex_, or "none"
  state_mutex_,  \* owner of state_mutex_, or "none"
  up_complete_,  \* the completion flag
  cv_waiters,    \* threads blocked inside cv_.wait
  up_i,          \* loop variable i of countUp
  up_buffer,     \* output_buffer of countUp, a sequence of characters
  down_i,        \* loop variable i of countDown
  down_buffer,   \* output_buffer of countDown
  out,           \* what has been written to std::cout / std::cerr, in order
  exit_code,     \* -1 while main runs, else main's return value
  spurious,      \* number of spurious wakeups so far
  \* Module5/crit_think: the two FileProcessor programs
  version,       \* "original" (mod5-crithink.cpp) or "improved"
  caller,        \* "main", "test" for a direct call of reverseFileContent,
                 \* "test_again" for a call on what the first call wrote
  fpc,           \* position of the file program
  cin,           \* the lines of standard input not yet read
  input_exists,  \* INPUT_FILE exists
  input_file,    \* content of INPUT_FILE, a sequence of characters
  output_exists, \* OUTPUT_FILE exists
  output_file,   \* content of OUTPUT_FILE
  backup_file,   \* content of BACKUP_FILE
  hasContent,    \* local hasContent of appendUserInput
  lines,         \* local vector lines of the improved appendUserInput
  content,       \* local string content of reverseFileContent
  append_ret,    \* result of appendUserInput: "none", "true" or "false"
  reverse_ret,   \* result of reverseFileContent
  file_exit,     \* -1 while the file program runs, else main's return value
  start,         \* standard input and INPUT_FILE as they were at the start
  \* Module5/discusspost-test.cpp: producer and processor
  qpc,           \* position of main, producer and processor
  mtx,           \* owner of mtx, or "none"
  cv,            \* threads blocked inside cv.wait
  dataQueue,     \* the queue, front first
  done,          \* the flag done
  prod_i,        \* loop variable i of producer
  processed,     \* the values written as "Processed: v", in order
  q_spurious     \* number of spurious wakeups of processor so far

counterVars == <<pc, print_mutex_, state_mutex_, up_complete_, cv_waiters,
                 up_i, up_buffer, down_i, down_buffer, out, exit_code,
                 spurious>>

fileVars == <<version, caller, fpc, cin, input_exists, input_file,
              output_exists, output_file, backup_file, hasContent, lines,
              content, append_ret, reverse_ret, file_exit, start>>

queueVars == <<qpc, mtx, cv, dataQueue, done, prod_i, processed, q_spurious>>

vars == <<counterVars, fileVars, queueVars>>

kMaxCount == 20

\* at most this many spurious wakeups are explored in one run
MaxSpurious == 2

Threads == {"main", "up", "down"}

Workers == {"up", "down"}

----------------------------------------------------------------------------
(* operator<<(int): decimal formatting, most significant digit first *)

DigitChars == <<"0", "1", "2", "3", "4", "5", "6", "7", "8", "9">>

RECURSIVE IntToChars(_)
IntToChars(n) ==
  IF n < 10 THEN <<DigitChars[n + 1]>>
  ELSE IntToChars(n \div 10) \o <<DigitChars[(n % 10) + 1]>>

----------------------------------------------------------------------------
(* building blocks: std::scoped_lock on a mutex and a write to a stream *)

Goto(t, l) == pc' = [pc EXCEPT ![t] = l]

\* the process is running: main has not returned and std::terminate has not
\* been called
Alive == exit_code = -1

Chunk(t, stream, msg, payload) ==
  [who |-> t, stream |-> stream, msg |-> msg, payload |-> payload]

NewlineChunk(t, stream) == Chunk(t, stream, "NL", <<>>)

\* std::scoped_lock output_lock(print_mutex_): blocks until the mutex is free
LockPrint(t, from, to) ==
  /\ Alive
  /\ pc[t] = from
  /\ print_mutex_ = "none"
  /\ print_mutex_' = t
  /\ Goto(t, to)
  /\ UNCHANGED <<state_mutex_, up_complete_, cv_waiters, up_i, up_buffer,
                 down_i, down_buffer, out, exit_code, spurious>>
  /\ UNCHANGED <<fileVars, queueVars>>

\* destructor of output_lock at the closing brace
UnlockPrint(t, from, to) ==
  /\ Alive
  /\ pc[t] = from
  /\ print_mutex_' = "none"
  /\ Goto(t, to)
  /\ UNCHANGED <<state_mutex_, up_complete_, cv_waiters, up_i, up_buffer,
                 down_i, down_buffer, out, exit_code, spurious>>
  /\ UNCHANGED <<fileVars, queueVars>>

\* stream << "[" << thread_name << "] text": the insertions before '\n'
WriteText(t, from, to, stream, msg, payload) ==
  /\ Alive
  /\ pc[t] = from
  /\ out' = Append(out, Chunk(t, stream, msg, payload))
  /\ Goto(t, to)
  /\ UNCHANGED <<print_mutex_, state_mutex_, up_complete_, cv_waiters,
                 up_i, up_buffer, down_i, down_buffer, exit_code, spurious>>
  /\ UNCHANGED <<fileVars, queueVars>>

\* stream << '\n': the last insertion of the statement
WriteNewline(t, from, to, stream) ==
  /\ Alive
  /\ pc[t] = from
  /\ out' = Append(out, NewlineChunk(t, stream))
  /\ Goto(t, to)
  /\ UNCHANGED <<print_mutex_, state_mutex_, up_complete_, cv_waiters,
                 up_i, up_buffer, down_i, down_buffer, exit_code, spurious>>
  /\ UNCHANGED <<fileVars, queueVars>>

\* stack unwinding: the scoped locks of the frame release what they hold
Unwind(t) ==
  /\ print_mutex_' = IF print_mutex_ = t THEN "none" ELSE print_mutex_
  /\ state_mutex_' = IF state_mutex_ = t THEN "none" ELSE state_mutex_

----------------------------------------------------------------------------
\* ThreadSafeCounter counter; the workers are not started yet
CounterInit ==
  /\ pc = [main |-> "m_banner", up |-> "u_idle", down |-> "d_idle"]
  /\ print_mutex_ = "none"
  /\ state_mutex_ = "none"
  /\ up_complete_ = FALSE
  /\ cv_waiters = {}
  /\ up_i = 0
  /\ up_buffer = <<>>
  /\ down_i = 0
  /\ down_buffer = <<>>
  /\ out = <<>>
  /\ exit_code = -1
  /\ spurious = 0

----------------------------------------------------------------------------
(* ThreadSafeCounter::countUp *)

\* places of the try block where a statement may throw: a mutex lock
\* (std::system_error), the construction of output_buffer and the copy made
\* by output_buffer.str() (std::bad_alloc)
UpThrowLocs == {"u_lock_start", "u_buf", "u_lock_state", "u_lock_gate",
                "u_lock_up", "u_write_up"}

UpName ==
  /\ Alive
  /\ pc["up"] = "u_name"
  /\ Goto("up", "u_lock_start")
  /\ UNCHANGED <<print_mutex_, state_mutex_, up_complete_, cv_waiters,
                 up_i, up_buffer, down_i, down_buffer, out, exit_code, spurious>>
  /\ UNCHANGED <<fileVars, queueVars>>

UpLockStart == LockPrint("up", "u_lock_start", "u_write_start")

UpWriteStart ==
  WriteText("up", "u_write_start", "u_nl_start", "cout", "UP_START", <<>>)

UpNewlineStart == WriteNewline("up", "u_nl_start", "u_unlock_start", "cout")

UpUnlockStart == UnlockPrint("up", "u_unlock_start", "u_buf")

\* the loop started at 1 instead of 0
UpBuffer_StartsAtOne ==
  /\ Alive
  /\ pc["up"] = "u_buf"
  /\ up_buffer' = <<>>
  /\ up_i' = 1
  /\ Goto("up", "u_loop")
  /\ UNCHANGED <<print_mutex_, state_mutex_, up_complete_, cv_waiters,
                 down_i, down_buffer, out, exit_code, spurious>>
  /\ UNCHANGED <<fileVars, queueVars>>

\* std::ostringstream output_buffer; for (int i = 0; ...
UpBuffer ==
  /\ Alive
  /\ pc["up"] = "u_buf"
  /\ up_buffer' = <<>>
  /\ up_i' = 0
  /\ Goto("up", "u_loop")
  /\ UNCHANGED <<print_mutex_, state_mutex_, up_complete_, cv_waiters,
                 down_i, down_buffer, out, exit_code, spurious>>
  /\ UNCHANGED <<fileVars, queueVars>>

\* one iteration: output_buffer << i; if (i < kMaxCount) output_buffer << ' '
UpLoopBody ==
  /\ Alive
  /\ pc["up"] = "u_loop"
  /\ up_i <= kMaxCount
  /\ up_buffer' = up_buffer \o IntToChars(up_i)
                    \o (IF up_i < kMaxCount THEN <<" ">> ELSE <<>>)
  /\ up_i' = up_i + 1
  /\ UNCHANGED <<pc, print_mutex_, state_mutex_, up_complete_, cv_waiters,
                 down_i, down_buffer, out, exit_code, spurious>>
  /\ UNCHANGED <<fileVars, queueVars>>

UpLoopExit ==
  /\ Alive
  /\ pc["up"] = "u_loop"
  /\ ~(up_i <= kMaxCount)
  /\ Goto("up", "u_lock_state")
  /\ UNCHANGED <<print_mutex_, state_mutex_, up_complete_, cv_waiters,
                 up_i, up_buffer, down_i, down_buffer, out, exit_code, spurious>>
  /\ UNCHANGED <<fileVars, queueVars>>

\* std::scoped_lock state_lock(state_mutex_)
UpLockState ==
  /\ Alive
  /\ pc["up"] = "u_lock_state"
  /\ state_mutex_ = "none"
  /\ state_mutex_' = "up"
  /\ Goto("up", "u_set")
  /\ UNCHANGED <<print_mutex_, up_complete_, cv_waiters, up_i, up_buffer,
                 down_i, down_buffer, out, exit_code, spurious>>
  /\ UNCHANGED <<fileVars, queueVars>>

\* the critical section left without the assignment
UpSetComplete_NoSet ==
  /\ Alive
  /\ pc["up"] = "u_set"
  /\ Goto("up", "u_unlock_state")
  /\ UNCHANGED <<print_mutex_, state_mutex_, up_complete_, cv_waiters,
                 up_i, up_buffer, down_i, down_buffer, out, exit_code, spurious>>
  /\ UNCHANGED <<fileVars, queueVars>>

\* a handshake: the flag is set only once the other worker is waiting
UpSetComplete_WaitsForWaiter ==
  /\ Alive
  /\ pc["up"] = "u_set"
  /\ "down" \in cv_waiters
  /\ up_complete_' = TRUE
  /\ Goto("up", "u_unlock_state")
  /\ UNCHANGED <<print_mutex_, state_mutex_, cv_waiters, up_i, up_buffer,
                 down_i, down_buffer, out, exit_code, spurious>>
  /\ UNCHANGED <<fileVars, queueVars>>

\* up_complete_ = true
UpSetComplete ==
  /\ Alive
  /\ pc["up"] = "u_set"
  /\ up_complete_' = TRUE
  /\ Goto("up", "u_unlock_state")
  /\ UNCHANGED <<print_mutex_, state_mutex_, cv_waiters, up_i, up_buffer,
                 down_i, down_buffer, out, exit_code, spurious>>
  /\ UNCHANGED <<fileVars, queueVars>>

\* state_lock without its own block: the lock lives on to the end of the try
UpUnlockState_KeepsLock ==
  /\ Alive
  /\ pc["up"] = "u_unlock_state"
  /\ Goto("up", "u_notify")
  /\ UNCHANGED <<print_mutex_, state_mutex_, up_complete_, cv_waiters,
                 up_i, up_buffer, down_i, down_buffer, out, exit_code, spurious>>
  /\ UNCHANGED <<fileVars, queueVars>>

UpUnlockState ==
  /\ Alive
  /\ pc["up"] = "u_unlock_state"
  /\ state_mutex_' = "none"
  /\ Goto("up", "u_notify")
  /\ UNCHANGED <<print_mutex_, up_complete_, cv_waiters, up_i, up_buffer,
                 down_i, down_buffer, out, exit_code, spurious>>
  /\ UNCHANGED <<fileVars, queueVars>>

\* countUp without the call of cv_.notify_one()
UpNotify_Missing ==
  /\ Alive
  /\ pc["up"] = "u_notify"
  /\ Goto("up", "u_lock_gate")
  /\ UNCHANGED <<print_mutex_, state_mutex_, up_complete_, cv_waiters,
                 up_i, up_buffer, down_i, down_buffer, out, exit_code, spurious>>
  /\ UNCHANGED <<fileVars, queueVars>>

\* cv_.notify_one(): wakes one waiter if there is one, else has no effect
UpNotify ==
  /\ Alive
  /\ pc["up"] = "u_notify"
  /\ IF cv_waiters = {}
       THEN /\ cv_waiters' = cv_waiters
            /\ Goto("up", "u_lock_gate")
       ELSE \E w \in cv_waiters :
              /\ cv_waiters' = cv_waiters \ {w}
              /\ pc' = [pc EXCEPT !["up"] = "u_lock_gate", ![w] = "d_woken"]
  /\ UNCHANGED <<print_mutex_, state_mutex_, up_complete_, up_i, up_buffer,
                 down_i, down_buffer, out, exit_code, spurious>>
  /\ UNCHANGED <<fileVars, queueVars>>

UpLockGate == LockPrint("up", "u_lock_gate", "u_write_gate")

\* the values written with the completion message as well
UpWriteGate_WritesValues ==
  WriteText("up", "u_write_gate", "u_nl_gate", "cout", "UP", up_buffer)

UpWriteGate ==
  WriteText("up", "u_write_gate", "u_nl_gate", "cout", "UP_GATE", <<>>)

UpNewlineGate == WriteNewline("up", "u_nl_gate", "u_unlock_gate", "cout")

UpUnlockGate == UnlockPrint("up", "u_unlock_gate", "u_lock_up")

UpLockOutput == LockPrint("up", "u_lock_up", "u_write_up")

\* std::cout << "[" << thread_name << "] UP:   " << output_buffer.str()
UpWriteOutput ==
  WriteText("up", "u_write_up", "u_nl_up", "cout", "UP", up_buffer)

UpNewlineOutput == WriteNewline("up", "u_nl_up", "u_unlock_up", "cout")

UpUnlockOutput == UnlockPrint("up", "u_unlock_up", "u_ret")

\* a statement of the try block throws: the frame is unwound and control
\* reaches catch (const std::exception&)
UpThrow ==
  /\ Alive
  /\ pc["up"] \in UpThrowLocs
  /\ Unwind("up")
  /\ Goto("up", "u_catch_lock")
  /\ UNCHANGED <<up_complete_, cv_waiters, up_i, up_buffer,
                 down_i, down_buffer, out, exit_code, spurious>>
  /\ UNCHANGED <<fileVars, queueVars>>

UpCatchLock == LockPrint("up", "u_catch_lock", "u_catch_write")

UpCatchWrite ==
  WriteText("up", "u_catch_write", "u_catch_nl", "cerr", "UP_FAILED", <<>>)

UpCatchNewline == WriteNewline("up", "u_catch_nl", "u_catch_unlock", "cerr")

\* a handler that opens the gate on its way out
UpCatchUnlock_SetsFlag ==
  /\ Alive
  /\ pc["up"] = "u_catch_unlock"
  /\ print_mutex_' = "none"
  /\ up_complete_' = TRUE
  /\ Goto("up", "u_ret")
  /\ UNCHANGED <<state_mutex_, cv_waiters, up_i, up_buffer,
                 down_i, down_buffer, out, exit_code, spurious>>
  /\ UNCHANGED <<fileVars, queueVars>>

UpCatchUnlock == UnlockPrint("up", "u_catch_unlock", "u_ret")

\* places of countUp outside the try block, or inside a handler, where a
\* statement may throw: getThreadName() builds strings (std::bad_alloc) and
\* the handler locks print_mutex_ (std::system_error)
UpEscapeLocs == {"u_name", "u_catch_lock"}

\* the exception leaves countUp, which is noexcept: std::terminate ends the
\* process
UpEscape ==
  /\ Alive
  /\ pc["up"] \in UpEscapeLocs
  /\ Goto("up", "u_escaped")
  /\ exit_code' = 134
  /\ UNCHANGED <<print_mutex_, state_mutex_, up_complete_, cv_waiters,
                 up_i, up_buffer, down_i, down_buffer, out, spurious>>
  /\ UNCHANGED <<fileVars, queueVars>>

countUp ==
  \/ UpName \/ UpLockStart \/ UpWriteStart \/ UpNewlineStart
  \/ UpUnlockStart \/ UpBuffer \/ UpLoopBody \/ UpLoopExit
  \/ UpLockState \/ UpSetComplete \/ UpUnlockState \/ UpNotify
  \/ UpLockGate \/ UpWriteGate \/ UpNewlineGate \/ UpUnlockGate
  \/ UpLockOutput \/ UpWriteOutput \/ UpNewlineOutput \/ UpUnlockOutput
  \/ UpCatchLock \/ UpCatchWrite \/ UpCatchNewline \/ UpCatchUnlock

----------------------------------------------------------------------------
(* ThreadSafeCounter::countDown *)

DownThrowLocs == {"d_lock_wait", "d_lock_state", "d_lock_gate", "d_buf",
                  "d_lock_down", "d_write_down"}

DownName ==
  /\ Alive
  /\ pc["down"] = "d_name"
  /\ Goto("down", "d_lock_wait")
  /\ UNCHANGED <<print_mutex_, state_mutex_, up_complete_, cv_waiters,
                 up_i, up_buffer, down_i, down_buffer, out, exit_code, spurious>>
  /\ UNCHANGED <<fileVars, queueVars>>

DownLockWaiting == LockPrint("down", "d_lock_wait", "d_write_wait")

DownWriteWaiting ==
  WriteText("down", "d_write_wait", "d_nl_wait", "cout", "DOWN_WAITING", <<>>)

DownNewlineWaiting == WriteNewline("down", "d_nl_wait", "d_unlock_wait", "cout")

DownUnlockWaiting == UnlockPrint("down", "d_unlock_wait", "d_lock_state")

\* the wait entered without locking state_mutex_
DownLockState_NoLock ==
  /\ Alive
  /\ pc["down"] = "d_lock_state"
  /\ Goto("down", "d_pred")
  /\ UNCHANGED <<print_mutex_, state_mutex_, up_complete_, cv_waiters,
                 up_i, up_buffer, down_i, down_buffer, out, exit_code, spurious>>
  /\ UNCHANGED <<fileVars, queueVars>>

\* std::unique_lock state_lock(state_mutex_)
DownLockState ==
  /\ Alive
  /\ pc["down"] = "d_lock_state"
  /\ state_mutex_ = "none"
  /\ state_mutex_' = "down"
  /\ Goto("down", "d_pred")
  /\ UNCHANGED <<print_mutex_, up_complete_, cv_waiters, up_i, up_buffer,
                 down_i, down_buffer, out, exit_code, spurious>>
  /\ UNCHANGED <<fileVars, queueVars>>

\* cv_.wait(state_lock) without a predicate: the thread blocks whatever
\* the flag says
DownWaitPredicate_NoPredicate ==
  /\ Alive
  /\ pc["down"] = "d_pred"
  /\ state_mutex_' = "none"
  /\ cv_waiters' = cv_waiters \cup {"down"}
  /\ Goto("down", "d_blocked")
  /\ UNCHANGED <<print_mutex_, up_complete_, up_i, up_buffer,
                 down_i, down_buffer, out, exit_code, spurious>>
  /\ UNCHANGED <<fileVars, queueVars>>

\* countDown without the wait: it goes on whatever the flag says
DownWaitPredicate_NoGate ==
  /\ Alive
  /\ pc["down"] = "d_pred"
  /\ Goto("down", "d_unlock_state")
  /\ UNCHANGED <<print_mutex_, state_mutex_, up_complete_, cv_waiters,
                 up_i, up_buffer, down_i, down_buffer, out, exit_code, spurious>>
  /\ UNCHANGED <<fileVars, queueVars>>

\* a gate that closes again behind the thread that passed it
DownWaitPredicate_ResetsFlag ==
  /\ Alive
  /\ pc["down"] = "d_pred"
  /\ IF up_complete_
       THEN /\ Goto("down", "d_unlock_state")
            /\ up_complete_' = FALSE
            /\ UNCHANGED <<state_mutex_, cv_waiters>>
       ELSE /\ state_mutex_' = "none"
            /\ cv_waiters' = cv_waiters \cup {"down"}
            /\ Goto("down", "d_blocked")
            /\ UNCHANGED up_complete_
  /\ UNCHANGED <<print_mutex_, up_i, up_buffer,
                 down_i, down_buffer, out, exit_code, spurious>>
  /\ UNCHANGED <<fileVars, queueVars>>

\* cv_.wait(state_lock, pred) is while (!pred()) wait(state_lock): the
\* predicate reads up_complete_; if it is false the thread atomically
\* releases state_mutex_ and blocks on cv_
DownWaitPredicate ==
  /\ Alive
  /\ pc["down"] = "d_pred"
  /\ IF up_complete_
       THEN /\ Goto("down", "d_unlock_state")
            /\ UNCHANGED <<state_mutex_, cv_waiters>>
       ELSE /\ state_mutex_' = "none"
            /\ cv_waiters' = cv_waiters \cup {"down"}
            /\ Goto("down", "d_blocked")
  /\ UNCHANGED <<print_mutex_, up_complete_, up_i, up_buffer,
                 down_i, down_buffer, out, exit_code, spurious>>
  /\ UNCHANGED <<fileVars, queueVars>>

\* a waiter may be unblocked without any notification
SpuriousWakeup ==
  /\ Alive
  /\ pc["down"] = "d_blocked"
  /\ "down" \in cv_waiters
  /\ spurious < MaxSpurious
  /\ spurious' = spurious + 1
  /\ cv_waiters' = cv_waiters \ {"down"}
  /\ Goto("down", "d_woken")
  /\ UNCHANGED <<print_mutex_, state_mutex_, up_complete_, up_i, up_buffer,
                 down_i, down_buffer, out, exit_code>>
  /\ UNCHANGED <<fileVars, queueVars>>

\* if (!pred()) wait(state_lock): a single wait, without the loop
DownWaitReacquire_NoRecheck ==
  /\ Alive
  /\ pc["down"] = "d_woken"
  /\ state_mutex_ = "none"
  /\ state_mutex_' = "down"
  /\ Goto("down", "d_unlock_state")
  /\ UNCHANGED <<print_mutex_, up_complete_, cv_waiters, up_i, up_buffer,
                 down_i, down_buffer, out, exit_code, spurious>>
  /\ UNCHANGED <<fileVars, queueVars>>

\* wait(state_lock) re-acquires state_mutex_ before it returns to the loop
DownWaitReacquire ==
  /\ Alive
  /\ pc["down"] = "d_woken"
  /\ state_mutex_ = "none"
  /\ state_mutex_' = "down"
  /\ Goto("down", "d_pred")
  /\ UNCHANGED <<print_mutex_, up_complete_, cv_waiters, up_i, up_buffer,
                 down_i, down_buffer, out, exit_code, spurious>>
  /\ UNCHANGED <<fileVars, queueVars>>

\* state_lock of countDown without its own block: it is still held when the
\* next message is written
DownUnlockState_KeepsLock ==
  /\ Alive
  /\ pc["down"] = "d_unlock_state"
  /\ Goto("down", "d_lock_gate")
  /\ UNCHANGED <<print_mutex_, state_mutex_, up_complete_, cv_waiters,
                 up_i, up_buffer, down_i, down_buffer, out, exit_code, spurious>>
  /\ UNCHANGED <<fileVars, queueVars>>

DownUnlockState ==
  /\ Alive
  /\ pc["down"] = "d_unlock_state"
  /\ state_mutex_' = "none"
  /\ Goto("down", "d_lock_gate")
  /\ UNCHANGED <<print_mutex_, up_complete_, cv_waiters, up_i, up_buffer,
                 down_i, down_buffer, out, exit_code, spurious>>
  /\ UNCHANGED <<fileVars, queueVars>>

DownLockGate == LockPrint("down", "d_lock_gate", "d_write_gate")

DownWriteGate ==
  WriteText("down", "d_write_gate", "d_nl_gate", "cout", "DOWN_GATE", <<>>)

DownNewlineGate == WriteNewline("down", "d_nl_gate", "d_unlock_gate", "cout")

DownUnlockGate == UnlockPrint("down", "d_unlock_gate", "d_buf")

\* std::ostringstream output_buffer; for (int i = kMaxCount; ...
DownBuffer ==
  /\ Alive
  /\ pc["down"] = "d_buf"
  /\ down_buffer' = <<>>
  /\ down_i' = kMaxCount
  /\ Goto("down", "d_loop")
  /\ UNCHANGED <<print_mutex_, state_mutex_, up_complete_, cv_waiters,
                 up_i, up_buffer, out, exit_code, spurious>>
  /\ UNCHANGED <<fileVars, queueVars>>

\* one iteration: output_buffer << i; if (i > 0) output_buffer << ' '
DownLoopBody ==
  /\ Alive
  /\ pc["down"] = "d_loop"
  /\ down_i >= 0
  /\ down_buffer' = down_buffer \o IntToChars(down_i)
                      \o (IF down_i > 0 THEN <<" ">> ELSE <<>>)
  /\ down_i' = down_i - 1
  /\ UNCHANGED <<pc, print_mutex_, state_mutex_, up_complete_, cv_waiters,
                 up_i, up_buffer, out, exit_code, spurious>>
  /\ UNCHANGED <<fileVars, queueVars>>

DownLoopExit ==
  /\ Alive
  /\ pc["down"] = "d_loop"
  /\ ~(down_i >= 0)
  /\ Goto("down", "d_lock_down")
  /\ UNCHANGED <<print_mutex_, state_mutex_, up_complete_, cv_waiters,
                 up_i, up_buffer, down_i, down_buffer, out, exit_code, spurious>>
  /\ UNCHANGED <<fileVars, queueVars>>

\* the DOWN line written without taking print_mutex_
DownLockOutput_NoLock ==
  /\ Alive
  /\ pc["down"] = "d_lock_down"
  /\ Goto("down", "d_write_down")
  /\ UNCHANGED <<print_mutex_, state_mutex_, up_complete_, cv_waiters,
                 up_i, up_buffer, down_i, down_buffer, out, exit_code, spurious>>
  /\ UNCHANGED <<fileVars, queueVars>>

DownLockOutput == LockPrint("down", "d_lock_down", "d_write_down")

\* std::cout << "[" << thread_name << "] DOWN: " << output_buffer.str()
DownWriteOutput ==
  WriteText("down", "d_write_down", "d_nl_down", "cout", "DOWN", down_buffer)

DownNewlineOutput == WriteNewline("down", "d_nl_down", "d_unlock_down", "cout")

DownUnlockOutput == UnlockPrint("down", "d_unlock_down", "d_ret")

DownThrow ==
  /\ Alive
  /\ pc["down"] \in DownThrowLocs
  /\ Unwind("down")
  /\ Goto("down", "d_catch_lock")
  /\ UNCHANGED <<up_complete_, cv_waiters, up_i, up_buffer,
                 down_i, down_buffer, out, exit_code, spurious>>
  /\ UNCHANGED <<fileVars, queueVars>>

DownCatchLock == LockPrint("down", "d_catch_lock", "d_catch_write")

DownCatchWrite ==
  WriteText("down", "d_catch_write", "d_catch_nl", "cerr", "DOWN_FAILED", <<>>)

DownCatchNewline == WriteNewline("down", "d_catch_nl", "d_catch_unlock", "cerr")

DownCatchUnlock == UnlockPrint("down", "d_catch_unlock", "d_ret")

DownEscapeLocs == {"d_name", "d_catch_lock"}

\* the exception leaves countDown, which is noexcept
DownEscape ==
  /\ Alive
  /\ pc["down"] \in DownEscapeLocs
  /\ Goto("down", "d_escaped")
  /\ exit_code' = 134
  /\ UNCHANGED <<print_mutex_, state_mutex_, up_complete_, cv_waiters,
                 up_i, up_buffer, down_i, down_buffer, out, spurious>>
  /\ UNCHANGED <<fileVars, queueVars>>

countDown ==
  \/ DownName \/ DownLockWaiting \/ DownWriteWaiting \/ DownNewlineWaiting
  \/ DownUnlockWaiting \/ DownLockState \/ DownWaitPredicate
  \/ DownWaitReacquire \/ DownUnlockState
  \/ DownLockGate \/ DownWriteGate \/ DownNewlineGate \/ DownUnlockGate
  \/ DownBuffer \/ DownLoopBody \/ DownLoopExit
  \/ DownLockOutput \/ DownWriteOutput \/ DownNewlineOutput
  \/ DownUnlockOutput
  \/ DownCatchLock \/ DownCatchWrite \/ DownCatchNewline \/ DownCatchUnlock

----------------------------------------------------------------------------
(* main *)

\* the three start-up lines, written before any worker exists
MainBanner ==
  /\ Alive
  /\ pc["main"] = "m_banner"
  /\ out' = out \o <<Chunk("main", "cout", "MAIN_STARTED", <<>>),
                     NewlineChunk("main", "cout"),
                     Chunk("main", "cout", "MAIN_CONFIG", <<>>),
                     NewlineChunk("main", "cout"),
                     Chunk("main", "cout", "MAIN_SUBMIT", <<>>),
                     NewlineChunk("main", "cout")>>
  /\ Goto("main", "m_spawn_up")
  /\ UNCHANGED <<print_mutex_, state_mutex_, up_complete_, cv_waiters,
                 up_i, up_buffer, down_i, down_buffer, exit_code, spurious>>
  /\ UNCHANGED <<fileVars, queueVars>>

\* std::jthread count_up_thread(&ThreadSafeCounter::countUp, &counter)
MainSpawnUp ==
  /\ Alive
  /\ pc["main"] = "m_spawn_up"
  /\ pc' = [pc EXCEPT !["main"] = "m_spawn_down", !["up"] = "u_name"]
  /\ UNCHANGED <<print_mutex_, state_mutex_, up_complete_, cv_waiters,
                 up_i, up_buffer, down_i, down_buffer, out, exit_code, spurious>>
  /\ UNCHANGED <<fileVars, queueVars>>

\* std::jthread count_down_thread(&ThreadSafeCounter::countDown, &counter)
MainSpawnDown ==
  /\ Alive
  /\ pc["main"] = "m_spawn_down"
  /\ pc' = [pc EXCEPT !["main"] = "m_join_up", !["down"] = "d_name"]
  /\ UNCHANGED <<print_mutex_, state_mutex_, up_complete_, cv_waiters,
                 up_i, up_buffer, down_i, down_buffer, out, exit_code, spurious>>
  /\ UNCHANGED <<fileVars, queueVars>>

\* count_up_thread.join() returns once countUp has returned
MainJoinUp ==
  /\ Alive
  /\ pc["main"] = "m_join_up"
  /\ pc["up"] = "u_ret"
  /\ Goto("main", "m_join_down")
  /\ UNCHANGED <<print_mutex_, state_mutex_, up_complete_, cv_waiters,
                 up_i, up_buffer, down_i, down_buffer, out, exit_code, spurious>>
  /\ UNCHANGED <<fileVars, queueVars>>

\* main going on without waiting for countDown
MainJoinDown_NoWait ==
  /\ Alive
  /\ pc["main"] = "m_join_down"
  /\ Goto("main", "m_report")
  /\ UNCHANGED <<print_mutex_, state_mutex_, up_complete_, cv_waiters,
                 up_i, up_buffer, down_i, down_buffer, out, exit_code, spurious>>
  /\ UNCHANGED <<fileVars, queueVars>>

MainJoinDown ==
  /\ Alive
  /\ pc["main"] = "m_join_down"
  /\ pc["down"] = "d_ret"
  /\ Goto("main", "m_report")
  /\ UNCHANGED <<print_mutex_, state_mutex_, up_complete_, cv_waiters,
                 up_i, up_buffer, down_i, down_buffer, out, exit_code, spurious>>
  /\ UNCHANGED <<fileVars, queueVars>>

\* the closing lines and return EXIT_SUCCESS
MainReport ==
  /\ Alive
  /\ pc["main"] = "m_report"
  /\ out' = out \o <<Chunk("main", "cout", "MAIN_SHUTDOWN", <<>>),
                     NewlineChunk("main", "cout"),
                     Chunk("main", "cout", "MAIN_SHUT_OK", <<>>),
                     NewlineChunk("main", "cout"),
                     Chunk("main", "cout", "MAIN_TASKS", <<>>),
                     NewlineChunk("main", "cout"),
                     Chunk("main", "cout", "MAIN_COMPLETED", <<>>),
                     NewlineChunk("main", "cout")>>
  /\ exit_code' = 0
  /\ Goto("main", "m_done")
  /\ UNCHANGED <<print_mutex_, state_mutex_, up_complete_, cv_waiters,
                 up_i, up_buffer, down_i, down_buffer, spurious>>
  /\ UNCHANGED <<fileVars, queueVars>>

\* the constructor of a std::jthread throws std::system_error when the thread
\* cannot be started; when the second one throws, unwinding destroys
\* count_up_thread first
MainSpawnThrows ==
  /\ Alive
  /\ \/ pc["main"] = "m_spawn_up" /\ Goto("main", "m_catch")
     \/ pc["main"] = "m_spawn_down" /\ Goto("main", "m_unwind_up")
  /\ UNCHANGED <<print_mutex_, state_mutex_, up_complete_, cv_waiters,
                 up_i, up_buffer, down_i, down_buffer, out, exit_code, spurious>>
  /\ UNCHANGED <<fileVars, queueVars>>

\* ~jthread of count_up_thread joins the running countUp
MainUnwindJoinUp ==
  /\ Alive
  /\ pc["main"] = "m_unwind_up"
  /\ pc["up"] = "u_ret"
  /\ Goto("main", "m_catch")
  /\ UNCHANGED <<print_mutex_, state_mutex_, up_complete_, cv_waiters,
                 up_i, up_buffer, down_i, down_buffer, out, exit_code, spurious>>
  /\ UNCHANGED <<fileVars, queueVars>>

\* catch (const std::system_error&): report and return EXIT_FAILURE
MainCatch ==
  /\ Alive
  /\ pc["main"] = "m_catch"
  /\ out' = out \o <<Chunk("main", "cerr", "MAIN_SYSTEM_ERROR", <<>>),
                     NewlineChunk("main", "cerr")>>
  /\ exit_code' = 1
  /\ Goto("main", "m_failed")
  /\ UNCHANGED <<print_mutex_, state_mutex_, up_complete_, cv_waiters,
                 up_i, up_buffer, down_i, down_buffer, spurious>>
  /\ UNCHANGED <<fileVars, queueVars>>

main ==
  \/ MainBanner \/ MainSpawnUp \/ MainSpawnDown
  \/ MainJoinUp \/ MainJoinDown \/ MainReport
  \/ MainUnwindJoinUp \/ MainCatch

----------------------------------------------------------------------------
(* Module5/crit_think: FileProcessor of mod5-crithink.cpp ("original") and *)
(* of mod5-critthink-improved.cpp ("improved").  A file is a sequence of   *)
(* characters, a line of input a sequence of characters without '\n'.      *)

MaxLineLength == 1000

MAX_FILE_SIZE == 10000000

\* longest initial content of a file that is explored
MaxFileLen == 3

\* largest number of lines on standard input that is explored
MaxInputLines == 2

FileChars == {"a", "b", "\n"}

\* a line one character longer than the improved program accepts
LongLine == [i \in 1..(MaxLineLength + 1) |-> IF i = 1 THEN "b" ELSE "a"]

InputLines == {<<>>, <<"a">>, <<"b", "a">>, LongLine}

SeqsUpTo(S, n) == UNION {[1..k -> S] : k \in 0..n}

\* std::reverse(content.begin(), content.end())
Reverse(str) == [i \in 1..Len(str) |-> str[Len(str) + 1 - i]]

\* content += line + '\n' for every line of a sequence of lines
RECURSIVE JoinLines(_)
JoinLines(ls) ==
  IF ls = <<>> THEN <<>>
  ELSE Head(ls) \o <<"\n">> \o JoinLines(Tail(ls))

\* std::getline(inFile, line), called until it fails: a line starts at the
\* first character and behind every '\n' that is not the last character, and
\* runs up to the next '\n' or, without one, to the end of the file
GetLines(file) ==
  LET starts == {p \in DOMAIN file : p = 1 \/ file[p - 1] = "\n"}
      nth(k) == CHOOSE p \in starts :
                  Cardinality({q \in starts : q < p}) = k - 1
      stop(p) == IF \E i \in p..Len(file) : file[i] = "\n"
                   THEN (CHOOSE i \in p..Len(file) :
                           /\ file[i] = "\n"
                           /\ \A j \in p..(i - 1) : file[j] # "\n") - 1
                   ELSE Len(file)
  IN  [k \in 1..Cardinality(starts) |-> SubSeq(file, nth(k), stop(nth(k)))]

\* while (std::getline(inFile, line)) content += line + '\n'
GetlineAll(file) == JoinLines(GetLines(file))

\* if (line.length() > 1000) line.resize(1000)
Truncated(line) ==
  IF Len(line) > MaxLineLength THEN SubSeq(line, 1, MaxLineLength) ELSE line

\* if (!content.empty() && content.back() == '\n') content.pop_back()
PopNewline(str) ==
  IF str # <<>> /\ str[Len(str)] = "\n"
    THEN SubSeq(str, 1, Len(str) - 1)
    ELSE str

\* an ofstream opened with std::ios::app: the file is created when missing
\* and keeps what it holds
OpenedForAppend == IF input_exists THEN input_file ELSE <<>>

FileOff ==
  /\ version = "original"
  /\ caller = "main"
  /\ fpc = "f_off"
  /\ cin = <<>>
  /\ input_exists = FALSE
  /\ input_file = <<>>
  /\ output_exists = FALSE
  /\ output_file = <<>>
  /\ backup_file = <<>>
  /\ hasContent = FALSE
  /\ lines = <<>>
  /\ content = <<>>
  /\ append_ret = "none"
  /\ reverse_ret = "none"
  /\ file_exit = -1
  /\ start = [cin |-> <<>>, input_exists |-> FALSE, input_file |-> <<>>]

\* the producer/processor program of Module5/discusspost-test.cpp not started
QueueOff ==
  /\ qpc = [main |-> "q_off", producer |-> "p_idle", processor |-> "c_idle"]
  /\ mtx = "none"
  /\ cv = {}
  /\ dataQueue = <<>>
  /\ done = FALSE
  /\ prod_i = 0
  /\ processed = <<>>
  /\ q_spurious = 0

\* one of the two programs is started, or reverseFileContent is called on
\* its own; standard input and the files are whatever earlier runs left
FileInit ==
  /\ CounterInit
  /\ QueueOff
  /\ version \in {"original", "improved"}
  /\ caller \in {"main", "test"}
  /\ fpc = IF caller = "main" THEN "f_main" ELSE "r_begin"
  /\ cin \in SeqsUpTo(InputLines, MaxInputLines)
  /\ input_exists \in BOOLEAN
  /\ input_file \in SeqsUpTo(FileChars, MaxFileLen)
  /\ input_exists = FALSE => input_file = <<>>
  /\ output_exists = FALSE
  /\ output_file = <<>>
  /\ backup_file = <<"a", "\n">>
  /\ hasContent = FALSE
  /\ lines = <<>>
  /\ content = <<>>
  /\ append_ret = "none"
  /\ reverse_ret = "none"
  /\ file_exit = -1
  /\ start = [cin |-> cin, input_exists |-> input_exists,
              input_file |-> input_file]

\* main: processor.appendUserInput()
FileMainStart ==
  /\ fpc = "f_main"
  /\ fpc' = "a_begin"
  /\ UNCHANGED <<version, caller, cin, input_exists, input_file,
                 output_exists, output_file, backup_file, hasContent, lines,
                 content, append_ret, reverse_ret, file_exit, start>>
  /\ UNCHANGED <<counterVars, queueVars>>

----------------------------------------------------------------------------
(* FileProcessor::appendUserInput *)

\* the file opened without std::ios::app: what it held is lost
OrigAppendOpen_Truncates ==
  /\ fpc = "a_begin"
  /\ version = "original"
  /\ input_exists' = TRUE
  /\ input_file' = <<>>
  /\ hasContent' = FALSE
  /\ fpc' = "a_read"
  /\ UNCHANGED <<version, caller, cin, output_exists, output_file,
                 backup_file, lines, content, append_ret, reverse_ret,
                 file_exit, start>>
  /\ UNCHANGED <<counterVars, queueVars>>

\* original: std::ofstream outFile(INPUT_FILE, std::ios::app) succeeds
OrigAppendOpen ==
  /\ fpc = "a_begin"
  /\ version = "original"
  /\ input_exists' = TRUE
  /\ input_file' = OpenedForAppend
  /\ hasContent' = FALSE
  /\ fpc' = "a_read"
  /\ UNCHANGED <<version, caller, cin, output_exists, output_file,
                 backup_file, lines, content, append_ret, reverse_ret,
                 file_exit, start>>
  /\ UNCHANGED <<counterVars, queueVars>>

\* improved: the input is collected before the file is touched
ImpAppendBegin ==
  /\ fpc = "a_begin"
  /\ version = "improved"
  /\ lines' = <<>>
  /\ hasContent' = FALSE
  /\ fpc' = "a_read"
  /\ UNCHANGED <<version, caller, cin, input_exists, input_file,
                 output_exists, output_file, backup_file, content,
                 append_ret, reverse_ret, file_exit, start>>
  /\ UNCHANGED <<counterVars, queueVars>>

\* the file cannot be opened for appending: the runtime_error is caught and
\* appendUserInput returns false
AppendOpenFails ==
  /\ \/ fpc = "a_begin" /\ version = "original"
     \/ fpc = "a_check" /\ version = "improved" /\ hasContent
  /\ append_ret' = "false"
  /\ fpc' = "f_after_append"
  /\ UNCHANGED <<version, caller, cin, input_exists, input_file,
                 output_exists, output_file, backup_file, hasContent, lines,
                 content, reverse_ret, file_exit, start>>
  /\ UNCHANGED <<counterVars, queueVars>>

\* getline returned a line that does not end the loop
LoopGoesOn == cin # <<>> /\ ~(Head(cin) = <<>> /\ hasContent)

\* original, one iteration: a non-empty line is written to the file with '\n'
OrigAppendLine ==
  /\ fpc = "a_read"
  /\ version = "original"
  /\ LoopGoesOn
  /\ cin' = Tail(cin)
  /\ IF Head(cin) # <<>>
       THEN /\ hasContent' = TRUE
            /\ input_file' = input_file \o Head(cin) \o <<"\n">>
       ELSE UNCHANGED <<hasContent, input_file>>
  /\ UNCHANGED <<version, caller, fpc, input_exists, output_exists,
                 output_file, backup_file, lines, content, append_ret,
                 reverse_ret, file_exit, start>>
  /\ UNCHANGED <<counterVars, queueVars>>

\* improved, one iteration: a non-empty line is cut to MaxLineLength
\* characters and pushed onto lines
ImpAppendLine ==
  /\ fpc = "a_read"
  /\ version = "improved"
  /\ LoopGoesOn
  /\ cin' = Tail(cin)
  /\ IF Head(cin) # <<>>
       THEN /\ hasContent' = TRUE
            /\ lines' = Append(lines, Truncated(Head(cin)))
       ELSE UNCHANGED <<hasContent, lines>>
  /\ UNCHANGED <<version, caller, fpc, input_exists, input_file,
                 output_exists, output_file, backup_file, content,
                 append_ret, reverse_ret, file_exit, start>>
  /\ UNCHANGED <<counterVars, queueVars>>

\* the loop ends: getline fails at the end of the input, or it returned an
\* empty line after content
AppendLoopEnds ==
  /\ fpc = "a_read"
  /\ ~LoopGoesOn
  /\ cin' = IF cin = <<>> THEN cin ELSE Tail(cin)
  /\ fpc' = "a_check"
  /\ UNCHANGED <<version, caller, input_exists, input_file, output_exists,
                 output_file, backup_file, hasContent, lines, content,
                 append_ret, reverse_ret, file_exit, start>>
  /\ UNCHANGED <<counterVars, queueVars>>

\* original: outFile.close(); return hasContent
OrigAppendReturn ==
  /\ fpc = "a_check"
  /\ version = "original"
  /\ append_ret' = IF hasContent THEN "true" ELSE "false"
  /\ fpc' = "f_after_append"
  /\ UNCHANGED <<version, caller, cin, input_exists, input_file,
                 output_exists, output_file, backup_file, hasContent, lines,
                 content, reverse_ret, file_exit, start>>
  /\ UNCHANGED <<counterVars, queueVars>>

\* improved: if (!hasContent) return false
ImpAppendNoContent ==
  /\ fpc = "a_check"
  /\ version = "improved"
  /\ ~hasContent
  /\ append_ret' = "false"
  /\ fpc' = "f_after_append"
  /\ UNCHANGED <<version, caller, cin, input_exists, input_file,
                 output_exists, output_file, backup_file, hasContent, lines,
                 content, reverse_ret, file_exit, start>>
  /\ UNCHANGED <<counterVars, queueVars>>

\* improved: appendToFile(INPUT_FILE, content); return true
ImpAppendToFile ==
  /\ fpc = "a_check"
  /\ version = "improved"
  /\ hasContent
  /\ input_exists' = TRUE
  /\ input_file' = OpenedForAppend \o JoinLines(lines)
  /\ append_ret' = "true"
  /\ fpc' = "f_after_append"
  /\ UNCHANGED <<version, caller, cin, output_exists, output_file,
                 backup_file, hasContent, lines, content, reverse_ret,
                 file_exit, start>>
  /\ UNCHANGED <<counterVars, queueVars>>

appendUserInput ==
  \/ OrigAppendOpen \/ ImpAppendBegin \/ AppendOpenFails
  \/ OrigAppendLine \/ ImpAppendLine \/ AppendLoopEnds
  \/ OrigAppendReturn \/ ImpAppendNoContent \/ ImpAppendToFile

----------------------------------------------------------------------------
(* FileProcessor::reverseFileContent *)

\* the input file cannot be read: std::ifstream is not open (original), or
\* file_size fails or exceeds MAX_FILE_SIZE (improved); the runtime_error is
\* caught and reverseFileContent returns false
ReverseReadFails ==
  /\ fpc = "r_begin"
  /\ \/ ~input_exists
     \/ version = "improved" /\ Len(input_file) > MAX_FILE_SIZE
  /\ reverse_ret' = "false"
  /\ fpc' = "f_after_reverse"
  /\ UNCHANGED <<version, caller, cin, input_exists, input_file,
                 output_exists, output_file, backup_file, hasContent, lines,
                 content, append_ret, file_exit, start>>
  /\ UNCHANGED <<counterVars, queueVars>>

\* original: the file is read line by line, each line followed by '\n'
OrigReverseRead ==
  /\ fpc = "r_begin"
  /\ version = "original"
  /\ input_exists
  /\ content' = GetlineAll(input_file)
  /\ fpc' = "r_check"
  /\ UNCHANGED <<version, caller, cin, input_exists, input_file,
                 output_exists, output_file, backup_file, hasContent, lines,
                 append_ret, reverse_ret, file_exit, start>>
  /\ UNCHANGED <<counterVars, queueVars>>

\* improved: readFileContent(INPUT_FILE) returns the bytes of the file
ImpReverseRead ==
  /\ fpc = "r_begin"
  /\ version = "improved"
  /\ input_exists
  /\ ~(Len(input_file) > MAX_FILE_SIZE)
  /\ content' = input_file
  /\ fpc' = "r_check"
  /\ UNCHANGED <<version, caller, cin, input_exists, input_file,
                 output_exists, output_file, backup_file, hasContent, lines,
                 append_ret, reverse_ret, file_exit, start>>
  /\ UNCHANGED <<counterVars, queueVars>>

\* if (content.empty()) return false
ReverseEmpty ==
  /\ fpc = "r_check"
  /\ content = <<>>
  /\ reverse_ret' = "false"
  /\ fpc' = "f_after_reverse"
  /\ UNCHANGED <<version, caller, cin, input_exists, input_file,
                 output_exists, output_file, backup_file, hasContent, lines,
                 content, append_ret, file_exit, start>>
  /\ UNCHANGED <<counterVars, queueVars>>

\* the reversal without the removal of the trailing newline
ReverseContent_KeepsNewline ==
  /\ fpc = "r_check"
  /\ content # <<>>
  /\ content' = Reverse(content)
  /\ fpc' = "r_write"
  /\ UNCHANGED <<version, caller, cin, input_exists, input_file,
                 output_exists, output_file, backup_file, hasContent, lines,
                 append_ret, reverse_ret, file_exit, start>>
  /\ UNCHANGED <<counterVars, queueVars>>

\* the trailing newline is removed and the characters are reversed
ReverseContent ==
  /\ fpc = "r_check"
  /\ content # <<>>
  /\ content' = Reverse(PopNewline(content))
  /\ fpc' = "r_write"
  /\ UNCHANGED <<version, caller, cin, input_exists, input_file,
                 output_exists, output_file, backup_file, hasContent, lines,
                 append_ret, reverse_ret, file_exit, start>>
  /\ UNCHANGED <<counterVars, queueVars>>

\* the output file receives content without the '\n'
ReverseWrite_NoNewline ==
  /\ fpc = "r_write"
  /\ output_exists' = TRUE
  /\ output_file' = content
  /\ reverse_ret' = "true"
  /\ fpc' = "f_after_reverse"
  /\ UNCHANGED <<version, caller, cin, input_exists, input_file,
                 backup_file, hasContent, lines, content, append_ret,
                 file_exit, start>>
  /\ UNCHANGED <<counterVars, queueVars>>

\* the output file is created or truncated and receives content + '\n'
ReverseWrite ==
  /\ fpc = "r_write"
  /\ output_exists' = TRUE
  /\ output_file' = content \o <<"\n">>
  /\ reverse_ret' = "true"
  /\ fpc' = "f_after_reverse"
  /\ UNCHANGED <<version, caller, cin, input_exists, input_file,
                 backup_file, hasContent, lines, content, append_ret,
                 file_exit, start>>
  /\ UNCHANGED <<counterVars, queueVars>>

\* the output file cannot be created: the runtime_error is caught
ReverseWriteFails ==
  /\ fpc = "r_write"
  /\ reverse_ret' = "false"
  /\ fpc' = "f_after_reverse"
  /\ UNCHANGED <<version, caller, cin, input_exists, input_file,
                 output_exists, output_file, backup_file, hasContent, lines,
                 content, append_ret, file_exit, start>>
  /\ UNCHANGED <<counterVars, queueVars>>

reverseFileContent ==
  \/ ReverseReadFails \/ OrigReverseRead \/ ImpReverseRead
  \/ ReverseEmpty \/ ReverseContent \/ ReverseWrite \/ ReverseWriteFails

----------------------------------------------------------------------------
(* main of the file programs; neither main calls restoreFromBackup *)

\* if (appendUserInput()) reverseFileContent(); else return 0
FileMainAfterAppend ==
  /\ fpc = "f_after_append"
  /\ fpc' = IF append_ret = "true" THEN "r_begin" ELSE "f_return"
  /\ UNCHANGED <<version, caller, cin, input_exists, input_file,
                 output_exists, output_file, backup_file, hasContent, lines,
                 content, append_ret, reverse_ret, file_exit, start>>
  /\ UNCHANGED <<counterVars, queueVars>>

\* if (reverseFileContent()) displayFileContents(), which only reads
FileMainAfterReverse ==
  /\ fpc = "f_after_reverse"
  /\ fpc' = IF caller = "main" THEN "f_return" ELSE "f_done"
  /\ UNCHANGED <<version, caller, cin, input_exists, input_file,
                 output_exists, output_file, backup_file, hasContent, lines,
                 content, append_ret, reverse_ret, file_exit, start>>
  /\ UNCHANGED <<counterVars, queueVars>>

\* return 0
FileMainReturn ==
  /\ fpc = "f_return"
  /\ file_exit' = 0
  /\ fpc' = "f_done"
  /\ UNCHANGED <<version, caller, cin, input_exists, input_file,
                 output_exists, output_file, backup_file, hasContent, lines,
                 content, append_ret, reverse_ret, start>>
  /\ UNCHANGED <<counterVars, queueVars>>

\* reverseFileContent is applied to what it wrote: the output file of a
\* successful direct call becomes the input file of a second direct call
ReverseAgain ==
  /\ fpc = "f_after_reverse"
  /\ caller = "test"
  /\ reverse_ret = "true"
  /\ caller' = "test_again"
  /\ input_exists' = TRUE
  /\ input_file' = output_file
  /\ output_exists' = FALSE
  /\ output_file' = <<>>
  /\ content' = <<>>
  /\ reverse_ret' = "none"
  /\ fpc' = "r_begin"
  /\ UNCHANGED <<version, cin, backup_file, hasContent, lines, append_ret,
                 file_exit, start>>
  /\ UNCHANGED <<counterVars, queueVars>>

FileMain ==
  \/ FileMainStart \/ FileMainAfterAppend \/ FileMainAfterReverse
  \/ FileMainReturn

FileNext ==
  \/ FileMain
  \/ appendUserInput
  \/ reverseFileContent
  \/ ReverseAgain

FileSpec == FileInit /\ [][FileNext]_vars

FileTypeOK ==
  /\ version \in {"original", "improved"}
  /\ caller \in {"main", "test", "test_again"}
  /\ input_exists \in BOOLEAN
  /\ output_exists \in BOOLEAN
  /\ hasContent \in BOOLEAN
  /\ append_ret \in {"none", "true", "false"}
  /\ reverse_ret \in {"none", "true", "false"}
  /\ file_exit \in {-1, 0, 1}
  /\ \A i \in DOMAIN input_file : input_file[i] \in FileChars
  /\ \A i \in DOMAIN output_file : output_file[i] \in FileChars

----------------------------------------------------------------------------
(* Module5/discusspost-test.cpp: producer pushes 0..4 onto dataQueue under *)
(* mtx, processor waits on cv and drains the queue.                        *)

NumItems == 5

\* the globals at the start of main
QueueInit ==
  /\ CounterInit
  /\ FileOff
  /\ qpc = [main |-> "q_spawn_t1", producer |-> "p_idle",
            processor |-> "c_idle"]
  /\ mtx = "none"
  /\ cv = {}
  /\ dataQueue = <<>>
  /\ done = FALSE
  /\ prod_i = 0
  /\ processed = <<>>
  /\ q_spurious = 0

QGoto(t, l) == qpc' = [qpc EXCEPT ![t] = l]

\* std::lock_guard / std::unique_lock on mtx
QLock(t, from, to) ==
  /\ qpc[t] = from
  /\ mtx = "none"
  /\ mtx' = t
  /\ QGoto(t, to)
  /\ UNCHANGED <<cv, dataQueue, done, prod_i, processed, q_spurious>>
  /\ UNCHANGED <<counterVars, fileVars>>

QUnlock(t, from, to) ==
  /\ qpc[t] = from
  /\ mtx' = "none"
  /\ QGoto(t, to)
  /\ UNCHANGED <<cv, dataQueue, done, prod_i, processed, q_spurious>>
  /\ UNCHANGED <<counterVars, fileVars>>

\* cv.notify_one(): wakes one waiter if there is one
QNotify(t, to) ==
  IF cv = {}
    THEN /\ cv' = cv
         /\ QGoto(t, to)
    ELSE \E w \in cv :
           /\ cv' = cv \ {w}
           /\ qpc' = [qpc EXCEPT ![t] = to, ![w] = "c_woken"]

(* producer *)

\* for (int i = 0; i < 5; ++i)
ProdLoopTest ==
  /\ qpc["producer"] = "p_loop"
  /\ QGoto("producer", IF prod_i < NumItems THEN "p_lock" ELSE "p_lock_done")
  /\ UNCHANGED <<mtx, cv, dataQueue, done, prod_i, processed, q_spurious>>
  /\ UNCHANGED <<counterVars, fileVars>>

ProdLock == QLock("producer", "p_lock", "p_push")

\* dataQueue.push(i)
ProdPush ==
  /\ qpc["producer"] = "p_push"
  /\ dataQueue' = Append(dataQueue, prod_i)
  /\ QGoto("producer", "p_unlock")
  /\ UNCHANGED <<mtx, cv, done, prod_i, processed, q_spurious>>
  /\ UNCHANGED <<counterVars, fileVars>>

ProdUnlock == QUnlock("producer", "p_unlock", "p_notify")

\* cv.notify_one(); ++i
ProdNotify ==
  /\ qpc["producer"] = "p_notify"
  /\ QNotify("producer", "p_loop")
  /\ prod_i' = prod_i + 1
  /\ UNCHANGED <<mtx, dataQueue, done, processed, q_spurious>>
  /\ UNCHANGED <<counterVars, fileVars>>

ProdLockDone == QLock("producer", "p_lock_done", "p_set_done")

\* done = true
ProdSetDone ==
  /\ qpc["producer"] = "p_set_done"
  /\ done' = TRUE
  /\ QGoto("producer", "p_unlock_done")
  /\ UNCHANGED <<mtx, cv, dataQueue, prod_i, processed, q_spurious>>
  /\ UNCHANGED <<counterVars, fileVars>>

ProdUnlockDone == QUnlock("producer", "p_unlock_done", "p_notify_done")

ProdNotifyDone_Missing ==
  /\ qpc["producer"] = "p_notify_done"
  /\ QGoto("producer", "p_ret")
  /\ UNCHANGED <<mtx, cv, dataQueue, done, prod_i, processed, q_spurious>>
  /\ UNCHANGED <<counterVars, fileVars>>

\* the last cv.notify_one(), then producer returns
ProdNotifyDone ==
  /\ qpc["producer"] = "p_notify_done"
  /\ QNotify("producer", "p_ret")
  /\ UNCHANGED <<mtx, dataQueue, done, prod_i, processed, q_spurious>>
  /\ UNCHANGED <<counterVars, fileVars>>

producer ==
  \/ ProdLoopTest \/ ProdLock \/ ProdPush \/ ProdUnlock \/ ProdNotify
  \/ ProdLockDone \/ ProdSetDone \/ ProdUnlockDone \/ ProdNotifyDone

(* processor *)

\* std::unique_lock<std::mutex> lock(mtx) at the top of while (true)
ProcLock == QLock("processor", "c_lock", "c_pred")

\* cv.wait(lock, pred) is while (!pred()) wait(lock), with the predicate
\* !dataQueue.empty() || done
ProcWaitPredicate ==
  /\ qpc["processor"] = "c_pred"
  /\ IF dataQueue # <<>> \/ done
       THEN /\ QGoto("processor", "c_drain")
            /\ UNCHANGED <<mtx, cv>>
       ELSE /\ mtx' = "none"
            /\ cv' = cv \cup {"processor"}
            /\ QGoto("processor", "c_blocked")
  /\ UNCHANGED <<dataQueue, done, prod_i, processed, q_spurious>>
  /\ UNCHANGED <<counterVars, fileVars>>

\* a waiter may be unblocked without any notification
ProcSpuriousWakeup ==
  /\ qpc["processor"] = "c_blocked"
  /\ "processor" \in cv
  /\ q_spurious < MaxSpurious
  /\ q_spurious' = q_spurious + 1
  /\ cv' = cv \ {"processor"}
  /\ QGoto("processor", "c_woken")
  /\ UNCHANGED <<mtx, dataQueue, done, prod_i, processed>>
  /\ UNCHANGED <<counterVars, fileVars>>

\* wait(lock) re-acquires mtx before it returns to the predicate
ProcWaitReacquire == QLock("processor", "c_woken", "c_pred")

ProcDrainTest_BreaksOnDone ==
  /\ qpc["processor"] = "c_drain"
  /\ QGoto("processor", IF dataQueue # <<>> /\ ~done THEN "c_front"
                                                     ELSE "c_if_done")
  /\ UNCHANGED <<mtx, cv, dataQueue, done, prod_i, processed, q_spurious>>
  /\ UNCHANGED <<counterVars, fileVars>>

\* while (!dataQueue.empty())
ProcDrainTest ==
  /\ qpc["processor"] = "c_drain"
  /\ QGoto("processor", IF dataQueue # <<>> THEN "c_front" ELSE "c_if_done")
  /\ UNCHANGED <<mtx, cv, dataQueue, done, prod_i, processed, q_spurious>>
  /\ UNCHANGED <<counterVars, fileVars>>

\* std::cout << "Processed: " << dataQueue.front() << "\n"; front() of an
\* empty queue is undefined: any value may be read
ProcFront ==
  /\ qpc["processor"] = "c_front"
  /\ \E v \in (IF dataQueue # <<>> THEN {Head(dataQueue)}
               ELSE -1..(NumItems - 1)) :
       processed' = Append(processed, v)
  /\ QGoto("processor", "c_pop")
  /\ UNCHANGED <<mtx, cv, dataQueue, done, prod_i, q_spurious>>
  /\ UNCHANGED <<counterVars, fileVars>>

\* dataQueue.pop()
ProcPop ==
  /\ qpc["processor"] = "c_pop"
  /\ dataQueue' = IF dataQueue # <<>> THEN Tail(dataQueue) ELSE dataQueue
  /\ QGoto("processor", "c_drain")
  /\ UNCHANGED <<mtx, cv, done, prod_i, processed, q_spurious>>
  /\ UNCHANGED <<counterVars, fileVars>>

\* if (done) break; the unique_lock is destroyed at the end of the iteration
\* and on break
ProcIfDone ==
  /\ qpc["processor"] = "c_if_done"
  /\ mtx' = "none"
  /\ QGoto("processor", IF done THEN "c_ret" ELSE "c_lock")
  /\ UNCHANGED <<cv, dataQueue, done, prod_i, processed, q_spurious>>
  /\ UNCHANGED <<counterVars, fileVars>>

processor ==
  \/ ProcLock \/ ProcWaitPredicate \/ ProcWaitReacquire
  \/ ProcDrainTest \/ ProcFront \/ ProcPop \/ ProcIfDone

(* main *)

\* std::thread t1(producer)
QueueMainSpawnT1 ==
  /\ qpc["main"] = "q_spawn_t1"
  /\ qpc' = [qpc EXCEPT !["main"] = "q_spawn_t2", !["producer"] = "p_loop"]
  /\ UNCHANGED <<mtx, cv, dataQueue, done, prod_i, processed, q_spurious>>
  /\ UNCHANGED <<counterVars, fileVars>>

\* std::thread t2(processor)
QueueMainSpawnT2 ==
  /\ qpc["main"] = "q_spawn_t2"
  /\ qpc' = [qpc EXCEPT !["main"] = "q_join_t1", !["processor"] = "c_lock"]
  /\ UNCHANGED <<mtx, cv, dataQueue, done, prod_i, processed, q_spurious>>
  /\ UNCHANGED <<counterVars, fileVars>>

\* t1.join()
QueueMainJoinT1 ==
  /\ qpc["main"] = "q_join_t1"
  /\ qpc["producer"] = "p_ret"
  /\ QGoto("main", "q_join_t2")
  /\ UNCHANGED <<mtx, cv, dataQueue, done, prod_i, processed, q_spurious>>
  /\ UNCHANGED <<counterVars, fileVars>>

\* t2.join(); return 0
QueueMainJoinT2 ==
  /\ qpc["main"] = "q_join_t2"
  /\ qpc["processor"] = "c_ret"
  /\ QGoto("main", "q_done")
  /\ UNCHANGED <<mtx, cv, dataQueue, done, prod_i, processed, q_spurious>>
  /\ UNCHANGED <<counterVars, fileVars>>

QueueMain ==
  \/ QueueMainSpawnT1 \/ QueueMainSpawnT2
  \/ QueueMainJoinT1 \/ QueueMainJoinT2

QueueNext ==
  \/ QueueMain
  \/ producer
  \/ processor
  \/ ProcSpuriousWakeup

QueueSpec == QueueInit /\ [][QueueNext]_vars

\* every thread that can take a step eventually takes one, a producer that
\* tries to lock mtx is not starved, and nothing forces a spurious wakeup
QueueFairness ==
  /\ WF_vars(QueueMain)
  /\ WF_vars(producer)
  /\ WF_vars(processor)
  /\ SF_vars(ProdLock)
  /\ SF_vars(ProdLockDone)

QueueLiveSpec == QueueSpec /\ QueueFairness

QueueTypeOK ==
  /\ mtx \in {"none", "producer", "processor"}
  /\ cv \subseteq {"processor"}
  /\ done \in BOOLEAN
  /\ prod_i \in 0..NumItems
  /\ Len(dataQueue) <= NumItems
  /\ q_spurious \in 0..MaxSpurious

----------------------------------------------------------------------------
Init == CounterInit /\ FileOff /\ QueueOff

Next ==
  \/ main
  \/ countUp
  \/ countDown
  \/ UpThrow
  \/ DownThrow
  \/ UpEscape
  \/ DownEscape
  \/ MainSpawnThrows
  \/ SpuriousWakeup

Spec == Init /\ [][Next]_vars

\* Scheduling: every thread that can take a step eventually takes one, a
\* thread that tries to lock state_mutex_ is not starved by a waiter that is
\* woken again and again, and nothing forces a throw or a spurious wakeup.
Fairness ==
  /\ WF_vars(main)
  /\ WF_vars(countUp)
  /\ WF_vars(countDown)
  /\ SF_vars(UpLockState)

LiveSpec == Spec /\ Fairness

----------------------------------------------------------------------------
TypeOK ==
  /\ print_mutex_ \in Threads \cup {"none"}
  /\ state_mutex_ \in Threads \cup {"none"}
  /\ up_complete_ \in BOOLEAN
  /\ cv_waiters \subseteq Workers
  /\ up_i \in 0..(kMaxCount + 1)
  /\ down_i \in -1..kMaxCount
  /\ exit_code \in {-1, 0, 1, 134}
  /\ spurious \in 0..MaxSpurious

----------------------------------------------------------------------------
(* Reading the output back *)

HasChunk(msg) == \E i \in DOMAIN out : out[i].msg = msg

\* the line with this text has been written completely, newline included
LineWritten(msg) ==
  \E i \in DOMAIN out :
    /\ out[i].msg = msg
    /\ i < Len(out)
    /\ out[i + 1].msg = "NL"
    /\ out[i + 1].who = out[i].who

DigitValue(c) == CHOOSE d \in 0..9 : DigitChars[d + 1] = c

IsDigit(c) == \E d \in 0..9 : DigitChars[d + 1] = c

\* the blank-separated tokens of a sequence of characters
RECURSIVE Tokens(_, _, _)
Tokens(chars, i, cur) ==
  IF i > Len(chars) THEN <<cur>>
  ELSE IF chars[i] = " " THEN <<cur>> \o Tokens(chars, i + 1, <<>>)
  ELSE Tokens(chars, i + 1, Append(cur, chars[i]))

RECURSIVE CharsToInt(_)
CharsToInt(tok) ==
  IF Len(tok) = 1 THEN DigitValue(tok[1])
  ELSE 10 * CharsToInt(SubSeq(tok, 1, Len(tok) - 1)) + DigitValue(tok[Len(tok)])

WellFormed(tok) == Len(tok) > 0 /\ \A k \in DOMAIN tok : IsDigit(tok[k])

\* the numbers a written line shows, or <<-1>> if it is not a list of numbers
Values(chars) ==
  LET toks == Tokens(chars, 1, <<>>)
  IN  IF \A k \in DOMAIN toks : WellFormed(toks[k])
        THEN [k \in DOMAIN toks |-> CharsToInt(toks[k])]
        ELSE <<-1>>

UpCatchLocs == {"u_catch_lock", "u_catch_write", "u_catch_nl", "u_catch_unlock"}

DownCatchLocs == {"d_catch_lock", "d_catch_write", "d_catch_nl", "d_catch_unlock"}

UpFailed ==
  pc["up"] \in UpCatchLocs \cup {"u_escaped"} \/ HasChunk("UP_FAILED")

DownFailed ==
  pc["down"] \in DownCatchLocs \cup {"d_escaped"} \/ HasChunk("DOWN_FAILED")

\* main could not start a worker
MainFailed == pc["main"] \in {"m_unwind_up", "m_catch", "m_failed"}

\* positions of countUp before up_complete_ = true has been executed
UpBeforeSet == {"u_idle", "u_name", "u_lock_start", "u_write_start",
                "u_nl_start", "u_unlock_start", "u_buf", "u_loop",
                "u_lock_state", "u_set"}

\* positions inside cv_.wait(state_lock, pred)
DownWaitLocs == {"d_pred", "d_blocked", "d_woken"}

\* positions between taking and releasing print_mutex_
OutputLocs ==
  {"u_write_start", "u_nl_start", "u_unlock_start",
   "u_write_gate", "u_nl_gate", "u_unlock_gate",
   "u_write_up", "u_nl_up", "u_unlock_up",
   "u_catch_write", "u_catch_nl", "u_catch_unlock",
   "d_write_wait", "d_nl_wait", "d_unlock_wait",
   "d_write_gate", "d_nl_gate", "d_unlock_gate",
   "d_write_down", "d_nl_down", "d_unlock_down",
   "d_catch_write", "d_catch_nl", "d_catch_unlock"}

\* this step appends to the output, and a worker is the writer
WorkerWrites(t) ==
  /\ Len(out') = Len(out) + 1
  /\ out'[Len(out')].who = t

----------------------------------------------------------------------------
(* C1: no DOWN output is written before all of the UP output has been      *)
(* written: whenever the DOWN text is in the output, the complete UP line  *)
(* (text and newline) stands before it.                                    *)
C1_UpOutputBeforeDownOutput ==
  \A j \in DOMAIN out :
    out[j].msg = "DOWN" =>
      \E i \in 1..(j - 2) :
        /\ out[i].msg = "UP"
        /\ out[i + 1] = NewlineChunk("up", "cout")

(* C2: countDown is in its counting loop, or has counted, only when        *)
(* up_complete_ is true, countUp has run all kMaxCount + 1 iterations of   *)
(* its loop and has executed the assignment to up_complete_.               *)
C2_GateBeforeCountDown ==
  (pc["down"] = "d_loop" \/ down_buffer # <<>>) =>
    /\ up_complete_
    /\ up_i = kMaxCount + 1
    /\ pc["up"] \notin UpBeforeSet

C2_Witness == pc["down"] = "d_loop" /\ down_i < kMaxCount /\ down_i >= 0

(* C3: under fair scheduling, a run in which no worker fails reaches the   *)
(* state where countUp, countDown and main have all returned.              *)
C3_BothWorkersReturn ==
  <>(UpFailed \/ DownFailed \/ MainFailed
       \/ (pc["up"] = "u_ret" /\ pc["down"] = "d_ret" /\ pc["main"] = "m_done"))

C3_Witness ==
  /\ pc["up"] = "u_ret" /\ pc["down"] = "d_ret" /\ pc["main"] = "m_done"
  /\ ~UpFailed /\ ~DownFailed
  /\ spurious > 0

(* C4: up_complete_ starts false and no step takes it from true to false.  *)
C4_FlagSetOnce ==
  /\ up_complete_ = FALSE
  /\ [][up_complete_ => up_complete_']_vars

C4_Witness == up_complete_ /\ pc["down"] = "d_ret" /\ ~DownFailed

(* C5: a countDown that is woken while up_complete_ is false goes back to  *)
(* the predicate, and from the predicate back to blocking; it leaves the   *)
(* wait only in a state where up_complete_ is true.                        *)
C5_SpuriousWakeupReblocks ==
  [][ /\ (pc["down"] = "d_woken" /\ pc'["down"] # "d_woken")
           => pc'["down"] = "d_pred"
      /\ (pc["down"] = "d_pred" /\ ~up_complete_ /\ pc'["down"] # "d_pred")
           => (pc'["down"] = "d_blocked" /\ "down" \in cv_waiters')
      /\ (pc["down"] \in DownWaitLocs /\ pc'["down"] \notin DownWaitLocs)
           => (up_complete_ /\ up_complete_') ]_vars

C5_Witness ==
  pc["down"] = "d_blocked" /\ spurious > 0 /\ ~up_complete_

(* C6: up_complete_ is true only when the count-up output has been         *)
(* written: the complete UP line is in the output.                         *)
C6_FlagAfterUpOutput == up_complete_ => LineWritten("UP")

(* C7: with kMaxCount = 20 the UP line shows exactly 0, 1, ..., 20 and the *)
(* DOWN line exactly 20, 19, ..., 0.                                       *)
C7_ValuesEmitted ==
  /\ kMaxCount = 20
  /\ \A i \in DOMAIN out :
       /\ out[i].msg = "UP" =>
            Values(out[i].payload) = [k \in 1..21 |-> k - 1]
       /\ out[i].msg = "DOWN" =>
            Values(out[i].payload) = [k \in 1..21 |-> 21 - k]

C7_Witness == HasChunk("UP") /\ HasChunk("DOWN")

(* C8: no worker writes output while it holds state_mutex_; countUp holds  *)
(* state_mutex_ only around the write of up_complete_, countDown only      *)
(* around the predicate check of its wait.                                 *)
C8_NoOutputUnderStateLock ==
  /\ [](state_mutex_ = "up" => pc["up"] \in {"u_set", "u_unlock_state"})
  /\ [](state_mutex_ = "down" => pc["down"] \in {"d_pred", "d_unlock_state"})
  /\ [][\A t \in Workers : WorkerWrites(t) => state_mutex_ # t]_vars

C8_Witness ==
  state_mutex_ = "down" /\ pc["up"] \in {"u_write_gate", "u_write_up"}

(* C9: up_complete_ changes only in a step of countUp taken while countUp  *)
(* holds state_mutex_, and countDown evaluates its predicate only while it *)
(* holds state_mutex_.                                                     *)
C9_FlagGuardedByStateMutex ==
  /\ [](pc["up"] = "u_set" => state_mutex_ = "up")
  /\ [](pc["down"] = "d_pred" => state_mutex_ = "down")
  /\ [][up_complete_' # up_complete_ =>
          /\ pc["up"] = "u_set" /\ pc'["up"] # "u_set"
          /\ pc'["down"] = pc["down"]
          /\ state_mutex_ = "up"]_vars

C9_Witness == pc["down"] = "d_pred" /\ up_complete_ /\ spurious > 0

(* C10: a worker writes to the output only while it holds print_mutex_,    *)
(* the two workers are never both inside an output section, and in the     *)
(* output every text written by a worker is directly followed by that      *)
(* worker's own newline.                                                   *)
C10_OutputUnderPrintMutex ==
  /\ [][\A t \in Workers : WorkerWrites(t) => print_mutex_ = t]_vars
  /\ [](~(pc["up"] \in OutputLocs /\ pc["down"] \in OutputLocs))
  /\ [](\A i \in DOMAIN out :
          (out[i].who \in Workers /\ out[i].msg # "NL" /\ i < Len(out))
            => out[i + 1] = NewlineChunk(out[i].who, out[i].stream))

C10_Witness ==
  /\ pc["down"] = "d_nl_down"
  /\ pc["up"] \in {"u_lock_gate", "u_lock_up", "u_catch_lock"}
  /\ HasChunk("UP_START")
(* C11: an exception raised anywhere in the body of countUp or countDown   *)
(* is caught inside that worker: no exception leaves a worker function and *)
(* the process is never terminated by one.                                 *)
C11_ExceptionsContained ==
  /\ pc["up"] # "u_escaped"
  /\ pc["down"] # "d_escaped"
  /\ exit_code # 134
\* countUp threw inside its try block and a handler caught the exception
UpCaught == pc["up"] \in UpCatchLocs \/ HasChunk("UP_FAILED")

\* positions of countDown up to and including its condition wait
DownBeforeGate == {"d_idle", "d_name", "d_lock_wait", "d_write_wait",
                   "d_nl_wait", "d_unlock_wait", "d_lock_state"}
                    \cup DownWaitLocs

UpRunning == Alive /\ pc["up"] \notin {"u_idle", "u_ret", "u_escaped"}

DownRunning == Alive /\ pc["down"] \notin {"d_idle", "d_ret", "d_escaped"}

\* positions at which a worker locks print_mutex_
PrintLockLocs ==
  {"u_lock_start", "u_lock_gate", "u_lock_up", "u_catch_lock",
   "d_lock_wait", "d_lock_gate", "d_lock_down", "d_catch_lock"}

(* C13: the condition wait of countDown is the only point where a worker   *)
(* can block: a running countUp can always take its next step, and a       *)
(* running countDown can take its next step unless it is blocked in the    *)
(* wait.                                                                   *)
C13_OnlyWaitBlocks ==
  /\ UpRunning => ENABLED countUp
  /\ (DownRunning /\ ~ENABLED countDown) => pc["down"] = "d_blocked"

(* C13, amended: the condition wait of countDown is the only point where a *)
(* worker waits for a signal; apart from it a worker is held up only while *)
(* it locks print_mutex_ or state_mutex_ and the other worker holds that   *)
(* mutex; countUp never waits on the condition variable.                   *)
C13_BlocksOnlyOnWaitOrHeldMutex ==
  /\ (UpRunning /\ ~ENABLED countUp) =>
       \/ pc["up"] \in PrintLockLocs /\ print_mutex_ = "down"
       \/ pc["up"] = "u_lock_state" /\ state_mutex_ = "down"
  /\ (DownRunning /\ ~ENABLED countDown) =>
       \/ pc["down"] = "d_blocked"
       \/ pc["down"] \in PrintLockLocs /\ print_mutex_ = "up"
       \/ pc["down"] \in {"d_lock_state", "d_woken"} /\ state_mutex_ = "up"
  /\ "up" \notin cv_waiters

C13_Witness ==
  /\ UpRunning /\ ~ENABLED countUp
  /\ pc["up"] = "u_lock_state"
  /\ spurious > 0
\* the places of the output where worker t wrote a line of counted values
ValueLines(t) ==
  {i \in DOMAIN out : out[i].who = t /\ out[i].msg \in {"UP", "DOWN"}}

\* those that show one value only
SingleValueLines(t) ==
  {i \in ValueLines(t) : Len(Values(out[i].payload)) = 1}

C15_SuccessAfterBothReturned ==
  (exit_code = 0 \/ HasChunk("MAIN_COMPLETED") \/ pc["main"] = "m_done") =>
    /\ pc["up"] = "u_ret"
    /\ pc["down"] = "d_ret"

C15_Witness == exit_code = 0 /\ HasChunk("MAIN_COMPLETED") /\ spurious > 0
(* C19: no wakeup is lost: a countDown that evaluates its predicate when   *)
(* the flag is already set goes on without blocking, and a countDown that  *)
(* is blocked while the flag is set still has the notification of countUp  *)
(* ahead of it.                                                            *)
C19_NoLostWakeup ==
  /\ []((("down" \in cv_waiters) /\ up_complete_) =>
          pc["up"] \in {"u_unlock_state", "u_notify"})
  /\ [][(pc["down"] = "d_pred" /\ up_complete_ /\ pc'["down"] # "d_pred") =>
          (pc'["down"] = "d_unlock_state" /\ cv_waiters' = cv_waiters)]_vars

C19_Witness ==
  /\ pc["down"] = "d_pred"
  /\ up_complete_
  /\ pc["up"] \notin UpBeforeSet \cup {"u_unlock_state", "u_notify"}
  /\ spurious = 0
  /\ cv_waiters = {}

(* C20: countUp calls notify_one only when up_complete_ is true and it no  *)
(* longer holds state_mutex_.                                              *)
C20_NotifyAfterSetAndUnlock ==
  [][(pc["up"] = "u_notify" /\ pc'["up"] # "u_notify") =>
       (up_complete_ /\ state_mutex_ # "up")]_vars

C20_Witness ==
  /\ pc["up"] = "u_lock_gate"
  /\ pc["down"] = "d_woken"
  /\ spurious = 0
----------------------------------------------------------------------------
(* Reading the runs of the file programs *)

\* the non-empty lines of the input up to the empty line that ends the entry
RECURSIVE Entered(_, _)
Entered(input, seen) ==
  IF input = <<>> THEN <<>>
  ELSE IF Head(input) = <<>>
         THEN IF seen THEN <<>> ELSE Entered(Tail(input), seen)
         ELSE <<Head(input)>> \o Entered(Tail(input), TRUE)

\* the first MaxLineLength characters of every line
CutLines(ls) ==
  [k \in DOMAIN ls |->
     [i \in 1..(IF Len(ls[k]) > MaxLineLength THEN MaxLineLength
                ELSE Len(ls[k])) |-> ls[k][i]]]

\* the characters before the final newline, last one first, then a newline
ReversedBody(str) ==
  LET n == IF str # <<>> /\ str[Len(str)] = "\n" THEN Len(str) - 1
           ELSE Len(str)
  IN  [i \in 1..(n + 1) |-> IF i <= n THEN str[n + 1 - i] ELSE "\n"]

(* C16: after a successful appendUserInput the input file holds what it    *)
(* held before the call, followed by every entered non-empty line with a   *)
(* newline, in the order entered.                                          *)
C16_AppendKeepsAndAdds ==
  append_ret = "true" =>
    /\ input_exists
    /\ input_file = start.input_file \o JoinLines(Entered(start.cin, FALSE))

(* C16, amended: as C16, but the improved program appends of every entered *)
(* line only its first MaxLineLength characters.                           *)
C16_AppendKeepsAndAddsCut ==
  append_ret = "true" =>
    /\ input_exists
    /\ input_file =
         start.input_file \o
           JoinLines(IF version = "improved"
                       THEN CutLines(Entered(start.cin, FALSE))
                       ELSE Entered(start.cin, FALSE))

C16_Witness ==
  /\ append_ret = "true"
  /\ version = "improved"
  /\ start.input_file # <<>>
  /\ Len(Entered(start.cin, FALSE)) = 2
  /\ Len(Entered(start.cin, FALSE)[2]) > MaxLineLength

C18_StartsFromBackup ==
  (version = "improved" /\ caller = "main"
     /\ fpc \in {"a_begin", "a_read", "a_check"}) =>
    /\ input_exists
    /\ input_file = backup_file
----------------------------------------------------------------------------
(* C21: no worker holds print_mutex_ and state_mutex_ at the same time.    *)
C21_NeverBothMutexes ==
  \A t \in Workers : ~(print_mutex_ = t /\ state_mutex_ = t)

C21_Witness ==
  /\ print_mutex_ = "up"
  /\ state_mutex_ = "down"
  /\ spurious > 0

----------------------------------------------------------------------------
\* the values producer pushes, in the order it pushes them
AllItems == [k \in 1..NumItems |-> k - 1]

IsPrefix(a, b) == Len(a) <= Len(b) /\ a = SubSeq(b, 1, Len(a))

\* the values still to be written: the queue, without the front once it has
\* been written and is about to be popped
Pending ==
  IF qpc["processor"] = "c_pop" /\ dataQueue # <<>> THEN Tail(dataQueue)
                                                    ELSE dataQueue

(* C22: the values processor has written followed by those still queued are *)
(* always the first values of 0..4 in order (none lost, duplicated or        *)
(* reordered), processor has written all of 0..4 when it returns, and it     *)
(* reads the front of the queue only when the queue is not empty.            *)
C22_EachValueOnceInOrder ==
  /\ IsPrefix(processed \o Pending, AllItems)
  /\ qpc["processor"] = "c_ret" => processed = AllItems
  /\ qpc["processor"] = "c_front" => dataQueue # <<>>

C22_Witness ==
  /\ qpc["processor"] = "c_ret"
  /\ qpc["producer"] = "p_ret"
  /\ processed = AllItems
  /\ q_spurious > 0

(* C23: processor always returns in the end, whatever the interleaving, and *)
(* the step that leaves its loop is taken only when done is true and the    *)
(* queue is empty.                                                           *)
C23_ProcessorTerminates ==
  /\ <>(qpc["processor"] = "c_ret")
  /\ [][qpc["processor"] # "c_ret" /\ qpc'["processor"] = "c_ret"
          => done /\ dataQueue = <<>>]_vars

\* processor has returned, with done set and the queue drained, in a run
\* without spurious wakeups, while main still waits in t1.join()
C23_Witness ==
  /\ qpc["processor"] = "c_ret"
  /\ done
  /\ dataQueue = <<>>
  /\ q_spurious = 0
  /\ qpc["main"] = "q_join_t1"

----------------------------------------------------------------------------
(* C24: when the input holds no non-empty line, appendUserInput returns     *)
(* false and the input file exists exactly when it existed before the call, *)
(* with the content it had, in the original and in the improved program.    *)
C24_NoInputLeavesFile ==
  (append_ret # "none" /\ Entered(start.cin, FALSE) = <<>>) =>
    /\ append_ret = "false"
    /\ input_exists = start.input_exists
    /\ input_file = start.input_file

\* the content ends with a newline
EndsWithNewline(str) == str # <<>> /\ str[Len(str)] = "\n"

====
